---- MODULE Spec2Model ----
(***************************************************************************)
(* The ATM of src/c1_state_machine/p3_atm.rs as a state machine.           *)
(*                                                                         *)
(* The program is one pure function, Atm::next_state(starting_state, t),   *)
(* which a driver applies again and again to the state it returned.  The   *)
(* model keeps the current Atm value, the value the last call started from *)
(* and the action of the last call, so that a statement about              *)
(* next_state(s, t) is a statement about one step.  It also keeps what an  *)
(* observer of the action stream knows: the hash of the last swipe the     *)
(* machine accepted, the digits typed since, how far the session got and   *)
(* how many times Enter was pressed in a row.                              *)
(*                                                                         *)
(* Integers: cash_inside, the pin hash and the withdrawal amount are u64.  *)
(* The model keeps the width but scales it to U64Bits bits, so that the    *)
(* registers that overflow the amount fold (20 digits and more in the      *)
(* program) are registers of MaxLen digits here.  Arithmetic that leaves   *)
(* the width panics when the build has overflow checks (cargo's debug      *)
(* profile) and wraps when it has none (the release profile): the build is *)
(* chosen in Init and never changes.                                       *)
(***************************************************************************)
EXTENDS Integers, Sequences, FiniteSets

VARIABLES
    state,            \* the Atm value the driver holds
    starting_state,   \* the Atm value the last call of next_state was given
    t,                \* the action of the last call of next_state
    panicked,         \* the last call of next_state panicked and returned nothing
    overflow_checks,  \* the build panics on integer overflow (else it wraps)
    accepted_hash,    \* history: hash of the last swipe made while Waiting
    typed,            \* history: digits pressed since that swipe or the last Enter
    session,          \* history: how far the actions since that swipe went
    enters            \* history: Enter presses in a row, counted up to 2

vars == <<state, starting_state, t, panicked, overflow_checks,
          accepted_hash, typed, session, enters>>

----------------------------------------------------------------------------
(* Bounds *)

\* longest keystroke register
MaxLen == 2
\* card hashes 0..MaxCardHash are swiped
MaxCardHash == 2
\* width of the scaled u64
U64Bits == 4

----------------------------------------------------------------------------
(* Data types *)

U64Modulus == 2 ^ U64Bits

U64Max == U64Modulus - 1

Digits == {"One", "Two", "Three", "Four"}

Key == Digits \cup {"Enter"}

SwipeCard(pin_hash) == [kind |-> "SwipeCard", pin_hash |-> pin_hash, key |-> "Enter"]

PressKey(key) == [kind |-> "PressKey", pin_hash |-> 0, key |-> key]

\* the value of t before any call
NoAction == [kind |-> "None", pin_hash |-> 0, key |-> "Enter"]

Waiting == [tag |-> "Waiting", hash |-> 0]

Authenticating(expected_hash) == [tag |-> "Authenticating", hash |-> expected_hash]

Authenticated == [tag |-> "Authenticated", hash |-> 0]

Atm(cash, auth, register) ==
    [cash_inside |-> cash, expected_pin_hash |-> auth, keystroke_register |-> register]

CardHashes == 0 .. MaxCardHash

CashValues == 0 .. U64Max

Registers == UNION {[1 .. n -> Digits] : n \in 0 .. MaxLen}

AuthValues == {Waiting, Authenticated} \cup {Authenticating(h) : h \in CardHashes}

----------------------------------------------------------------------------
(* Helpers *)

KeyCode(key) ==
    CASE key = "One" -> 1
      [] key = "Two" -> 2
      [] key = "Three" -> 3
      [] key = "Four" -> 4
      [] OTHER -> 0

\* crate::hash: a deterministic map from a key sequence to a u64
RECURSIVE hash(_)
hash(keys) ==
    IF keys = <<>> THEN 0
    ELSE (hash(SubSeq(keys, 1, Len(keys) - 1)) * 5 + KeyCode(keys[Len(keys)])) % U64Modulus

\* mutant: the new key goes to the front
clone_and_add_front(vec, element) == <<element>> \o vec

clone_and_add(vec, element) == Append(vec, element)

\* one step of the fold's closure, before the result is fitted into a u64
fold_step(acc, key) ==
    CASE key = "One" -> acc * 10 + 1
      [] key = "Two" -> acc * 10 + 2
      [] key = "Three" -> acc * 10 + 3
      [] key = "Four" -> acc * 10 + 4
      [] OTHER -> acc

\* amount_keys.iter().fold(0, ..) in wrapping u64 arithmetic
RECURSIVE amount(_)
amount(amount_keys) ==
    IF amount_keys = <<>> THEN 0
    ELSE fold_step(amount(SubSeq(amount_keys, 1, Len(amount_keys) - 1)),
                   amount_keys[Len(amount_keys)]) % U64Modulus

\* some step of the fold leaves the u64 range
RECURSIVE amount_overflows(_)
amount_overflows(amount_keys) ==
    IF amount_keys = <<>> THEN FALSE
    ELSE LET init == SubSeq(amount_keys, 1, Len(amount_keys) - 1)
         IN  \/ amount_overflows(init)
             \/ fold_step(amount(init), amount_keys[Len(amount_keys)]) >= U64Modulus

wrapping_sub(a, b) == (a - b + U64Modulus) % U64Modulus

----------------------------------------------------------------------------
(* Atm::next_state, one definition per arm of the match *)

\* mutant: a swipe in the middle of a session starts a new one
swipe_card_reseeds(s, pin_hash) ==
    Atm(s.cash_inside, Authenticating(pin_hash), <<>>)

\* mutant: an accepted swipe keeps what was typed before it
swipe_card_keeps_register(s, pin_hash) ==
    IF s.expected_pin_hash # Waiting
    THEN s
    ELSE Atm(s.cash_inside, Authenticating(pin_hash), s.keystroke_register)

\* mutant: a swipe in the middle of a session wipes what was typed
swipe_card_clears(s, pin_hash) ==
    Atm(s.cash_inside,
        IF s.expected_pin_hash # Waiting THEN s.expected_pin_hash ELSE Authenticating(pin_hash),
        <<>>)

\* mutant: a swipe in the middle of the pin entry replaces the expected hash
swipe_card_replaces_hash(s, pin_hash) ==
    IF s.expected_pin_hash = Authenticated
    THEN s
    ELSE Atm(s.cash_inside, Authenticating(pin_hash),
             IF s.expected_pin_hash = Waiting THEN <<>> ELSE s.keystroke_register)

swipe_card(s, pin_hash) ==
    IF s.expected_pin_hash # Waiting
    THEN s
    ELSE Atm(s.cash_inside, Authenticating(pin_hash), <<>>)

\* mutant: a wrong pin leaves the session open for another try
pin_check_retry(s) ==
    IF s.expected_pin_hash.hash = hash(s.keystroke_register)
    THEN Atm(wrapping_sub(s.cash_inside, 1), Authenticated, <<>>)
    ELSE Atm(s.cash_inside, s.expected_pin_hash, <<>>)

\* mutant: Enter authenticates whatever was typed
pin_check_always(s) ==
    Atm(wrapping_sub(s.cash_inside, 1), Authenticated, <<>>)

pin_check(s) ==
    IF s.expected_pin_hash.hash = hash(s.keystroke_register)
    THEN Atm(wrapping_sub(s.cash_inside, 1), Authenticated, <<>>)
    ELSE Atm(s.cash_inside, Waiting, <<>>)

\* mutant: an amount equal to the reserve is rejected
withdraw_strict(s) ==
    IF amount(s.keystroke_register) >= s.cash_inside
    THEN Atm(s.cash_inside, Waiting, <<>>)
    ELSE Atm(s.cash_inside - amount(s.keystroke_register), Waiting, <<>>)

withdraw(s) ==
    IF amount(s.keystroke_register) > s.cash_inside
    THEN Atm(s.cash_inside, Waiting, <<>>)
    ELSE Atm(s.cash_inside - amount(s.keystroke_register), Waiting, <<>>)

\* mutant: a stray Enter while Waiting returns the state as it is
press_enter_stray_kept(s) ==
    CASE s.expected_pin_hash.tag = "Authenticating" -> pin_check(s)
      [] s.expected_pin_hash.tag = "Authenticated" -> withdraw(s)
      [] OTHER -> s

press_enter(s) ==
    CASE s.expected_pin_hash.tag = "Authenticating" -> pin_check(s)
      [] s.expected_pin_hash.tag = "Authenticated" -> withdraw(s)
      [] OTHER -> Atm(s.cash_inside, Waiting, <<>>)

press_digit(s, key) ==
    Atm(s.cash_inside,
        IF s.expected_pin_hash.tag = "Authenticating"
        THEN Authenticating(s.expected_pin_hash.hash)
        ELSE Waiting,
        clone_and_add(s.keystroke_register, key))

next_state(s, a) ==
    IF a.kind = "SwipeCard" THEN swipe_card(s, a.pin_hash)
    ELSE IF a.key = "Enter" THEN press_enter(s)
    ELSE press_digit(s, a.key)

\* the call's arithmetic leaves the u64 range: `cash_inside - 1` on an empty
\* machine, or a step of the amount fold
overflows(s, a) ==
    /\ a = PressKey("Enter")
    /\ \/ /\ s.expected_pin_hash.tag = "Authenticating"
          /\ s.expected_pin_hash.hash = hash(s.keystroke_register)
          /\ s.cash_inside = 0
       \/ /\ s.expected_pin_hash.tag = "Authenticated"
          /\ amount_overflows(s.keystroke_register)

----------------------------------------------------------------------------
(* What an observer of the actions records.  Nothing here reads the state  *)
(* of the machine except to tell whether a swipe was made while Waiting    *)
(* and how much cash the machine held after the pin was accepted.          *)

\* no swipe was accepted yet
NoHash == 0 - 1

\* stage: "none" before any accepted swipe; "pin" from an accepted swipe to
\* the next Enter; "amount" after an Enter on the digits of the pin; "done"
\* after a second Enter on one or more digits spelling an amount within the
\* cash left after the pin; "over" otherwise.  script: no swipe was made
\* since the accepted one.  from_empty: the accepted swipe found an empty
\* register.
NoSession ==
    [stage |-> "none", script |-> FALSE, from_empty |-> FALSE,
     cash_after_auth |-> 0, due |-> 0]

\* the session that the last accepted swipe opened has ended
SessionOver ==
    [stage |-> "over", script |-> FALSE, from_empty |-> FALSE,
     cash_after_auth |-> 0, due |-> 0]

\* the key sequence read as a base-10 number, in the integers
RECURSIVE Base10(_)
Base10(keys) ==
    IF keys = <<>> THEN 0
    ELSE Base10(SubSeq(keys, 1, Len(keys) - 1)) * 10 + KeyCode(keys[Len(keys)])

\* the swipe is made while the machine is Waiting
Accepted(s, a) == a.kind = "SwipeCard" /\ s.expected_pin_hash = Waiting

accepted_hash_after(s, a) ==
    IF Accepted(s, a) THEN a.pin_hash ELSE accepted_hash

typed_after(s, a) ==
    IF Accepted(s, a) \/ a = PressKey("Enter") THEN <<>>
    ELSE IF a.kind = "PressKey" THEN Append(typed, a.key)
    ELSE typed

\* returned: the call did not panic; cash_after: the cash_inside it returned
session_after(s, a, returned, cash_after) ==
    IF Accepted(s, a)
    THEN [stage |-> "pin", script |-> TRUE,
          from_empty |-> (s.keystroke_register = <<>>),
          cash_after_auth |-> 0, due |-> 0]
    ELSE IF session.stage \in {"none", "over"}
    THEN session
    ELSE IF session.stage = "done"
    THEN SessionOver
    ELSE IF a.kind = "SwipeCard"
    THEN [session EXCEPT !.script = FALSE]
    ELSE IF a.key # "Enter"
    THEN session
    ELSE CASE session.stage = "pin" /\ accepted_hash = hash(typed) /\ returned ->
                  [session EXCEPT !.stage = "amount", !.cash_after_auth = cash_after]
           [] /\ session.stage = "amount"
              /\ typed # <<>>
              /\ Base10(typed) <= session.cash_after_auth ->
                  [session EXCEPT !.stage = "done",
                                  !.due = session.cash_after_auth - Base10(typed)]
           [] OTHER -> SessionOver

enters_after(a) ==
    IF a = PressKey("Enter")
    THEN (IF enters < 2 THEN enters + 1 ELSE 2)
    ELSE 0

----------------------------------------------------------------------------
(* The driver *)

\* any Atm value, as the tests of the module build them
Init ==
    /\ state \in [cash_inside : CashValues,
                  expected_pin_hash : AuthValues,
                  keystroke_register : Registers]
    /\ starting_state = state
    /\ t = NoAction
    /\ panicked = FALSE
    /\ overflow_checks \in BOOLEAN
    /\ accepted_hash = NoHash
    /\ typed = <<>>
    /\ session = NoSession
    /\ enters = 0

\* a machine fresh from construction: some cash, no session, nothing typed
InitFresh ==
    /\ state \in {Atm(c, Waiting, <<>>) : c \in CashValues}
    /\ starting_state = state
    /\ t = NoAction
    /\ panicked = FALSE
    /\ overflow_checks \in BOOLEAN
    /\ accepted_hash = NoHash
    /\ typed = <<>>
    /\ session = NoSession
    /\ enters = 0

\* one call of next_state on the state the driver holds
Call(a) ==
    /\ starting_state' = state
    /\ t' = a
    /\ IF overflow_checks /\ overflows(state, a)
       THEN panicked' = TRUE /\ state' = state
       ELSE panicked' = FALSE /\ state' = next_state(state, a)
    /\ UNCHANGED overflow_checks
    /\ accepted_hash' = accepted_hash_after(state, a)
    /\ typed' = typed_after(state, a)
    /\ session' = session_after(state, a, ~panicked', state'.cash_inside)
    /\ enters' = enters_after(a)

\* the driver makes no further call once a call has panicked
Swipe(pin_hash) ==
    /\ ~panicked
    /\ Call(SwipeCard(pin_hash))

PressEnter ==
    /\ ~panicked
    /\ Call(PressKey("Enter"))

PressDigit(key) ==
    /\ ~panicked
    /\ Len(state.keystroke_register) < MaxLen
    /\ Call(PressKey(key))

Next ==
    \/ \E pin_hash \in CardHashes : Swipe(pin_hash)
    \/ PressEnter
    \/ \E key \in Digits : PressDigit(key)

Spec == Init /\ [][Next]_vars

SpecFresh == InitFresh /\ [][Next]_vars

----------------------------------------------------------------------------
(* Vocabulary of the properties: the last call, seen from the state after it *)

Swiped == t.kind = "SwipeCard"

PressedDigit == t.kind = "PressKey" /\ t.key \in Digits

PressedEnter == t = PressKey("Enter")

StartedWaiting == starting_state.expected_pin_hash = Waiting

StartedAuthenticating == starting_state.expected_pin_hash.tag = "Authenticating"

StartedAuthenticated == starting_state.expected_pin_hash = Authenticated

\* the register the call started from hashes to the hash of the swiped card
PinMatches == hash(starting_state.keystroke_register) = starting_state.expected_pin_hash.hash

TypedAmount == Base10(starting_state.keystroke_register)

\* the call returned this Atm value
Returned(cash, auth, register) == ~panicked /\ state = Atm(cash, auth, register)

----------------------------------------------------------------------------
(* SwipeCard *)

\* C1: a swipe while a session is open (Authenticating or Authenticated)
\* returns the starting state: cash_inside, auth with its stored hash and the
\* register are all unchanged.
C1_SwipeInSessionIgnored ==
    (Swiped /\ ~StartedWaiting) => (~panicked /\ state = starting_state)

C1_Witness ==
    /\ Swiped
    /\ StartedAuthenticating
    /\ starting_state.expected_pin_hash.hash # t.pin_hash
    /\ starting_state.keystroke_register # <<>>
    /\ state = starting_state

\* C2: a swipe of hash h while Waiting, whatever the register holds, returns
\* auth = Authenticating(h), an empty register and the same cash_inside.
C2_SwipeStartsSession ==
    (Swiped /\ StartedWaiting) =>
        Returned(starting_state.cash_inside, Authenticating(t.pin_hash), <<>>)

C2_Witness ==
    /\ Swiped
    /\ StartedWaiting
    /\ starting_state.keystroke_register # <<>>
    /\ state.expected_pin_hash = Authenticating(t.pin_hash)
    /\ state.keystroke_register = <<>>

----------------------------------------------------------------------------
(* PressKey of a digit *)

\* C3: a digit pressed while Authenticating(h) is appended at the end of the
\* register; auth stays Authenticating(h) with the same h and cash_inside is
\* unchanged.
C3_DigitWhileAuthenticating ==
    (PressedDigit /\ StartedAuthenticating) =>
        Returned(starting_state.cash_inside,
                 starting_state.expected_pin_hash,
                 starting_state.keystroke_register \o <<t.key>>)

C3_Witness ==
    /\ PressedDigit
    /\ StartedAuthenticating
    /\ starting_state.keystroke_register # <<>>
    /\ starting_state.keystroke_register[1] # t.key
    /\ state.keystroke_register = starting_state.keystroke_register \o <<t.key>>

\* C4: a digit pressed while Authenticated is appended to the register; auth
\* stays Authenticated and cash_inside is unchanged.
C4_DigitWhileAuthenticated ==
    (PressedDigit /\ StartedAuthenticated) =>
        Returned(starting_state.cash_inside,
                 Authenticated,
                 starting_state.keystroke_register \o <<t.key>>)

\* C5: a digit pressed while Waiting returns cash_inside unchanged,
\* auth = Waiting and an empty register: the digit is not stored.
C5_DigitWhileWaiting ==
    (PressedDigit /\ StartedWaiting) =>
        Returned(starting_state.cash_inside, Waiting, <<>>)

----------------------------------------------------------------------------
(* PressKey(Enter) while Authenticating *)

\* C6: Enter while Authenticating(h) with a register that hashes to h returns
\* auth = Authenticated, an empty register and cash_inside lower by exactly 1.
C6_CorrectPinDebitsOne ==
    (PressedEnter /\ StartedAuthenticating /\ PinMatches) =>
        Returned(starting_state.cash_inside - 1, Authenticated, <<>>)

\* C7: Enter while Authenticating(h) with a register that hashes to h returns
\* auth = Authenticated, an empty register and cash_inside unchanged.
C7_CorrectPinKeepsCash ==
    (PressedEnter /\ StartedAuthenticating /\ PinMatches) =>
        Returned(starting_state.cash_inside, Authenticated, <<>>)

\* C8: Enter while Authenticating(h) with a register (the empty one included)
\* that hashes to something else than h returns auth = Waiting, an empty
\* register and cash_inside unchanged: the session is over.
C8_WrongPinAborts ==
    (PressedEnter /\ StartedAuthenticating /\ ~PinMatches) =>
        Returned(starting_state.cash_inside, Waiting, <<>>)

C8_Witness ==
    /\ PressedEnter
    /\ StartedAuthenticating
    /\ ~PinMatches
    /\ starting_state.keystroke_register # <<>>
    /\ starting_state.cash_inside > 0
    /\ state = Atm(starting_state.cash_inside, Waiting, <<>>)

----------------------------------------------------------------------------
(* PressKey(Enter) while Authenticated *)

\* C9: Enter while Authenticated with a register whose base-10 value is
\* greater than cash_inside returns cash_inside unchanged, auth = Waiting and
\* an empty register: nothing is dispensed.
C9_OverdraftRejected ==
    (PressedEnter /\ StartedAuthenticated /\ TypedAmount > starting_state.cash_inside) =>
        Returned(starting_state.cash_inside, Waiting, <<>>)

\* C10: Enter while Authenticated with a register whose base-10 value is at
\* most cash_inside (equal to it, or 0 from an empty register, included)
\* returns cash_inside lower by exactly that value, auth = Waiting and an
\* empty register.
C10_WithdrawalDebitsAmount ==
    (PressedEnter /\ StartedAuthenticated /\ TypedAmount <= starting_state.cash_inside) =>
        Returned(starting_state.cash_inside - TypedAmount, Waiting, <<>>)

C10_Witness ==
    /\ PressedEnter
    /\ StartedAuthenticated
    /\ Len(starting_state.keystroke_register) = 2
    /\ TypedAmount = starting_state.cash_inside
    /\ state = Atm(0, Waiting, <<>>)

----------------------------------------------------------------------------
(* Runs of a machine fresh from construction, and totality *)

Called == t.kind # "None"

\* by how much the last call lowered cash_inside
Debit == starting_state.cash_inside - state.cash_inside

\* C11: from a machine that starts Waiting with an empty register and any
\* cash_inside, 0 included, no step makes cash_inside greater or wraps it below
\* zero: a step leaves it unchanged, lowers it by exactly 1 on a successful pin
\* check, or lowers it by exactly the withdrawal amount, and never by more than
\* the cash_inside it started from.
C11_CashConservation ==
    Called =>
        /\ state.cash_inside \in 0 .. U64Max
        /\ Debit >= 0
        /\ Debit <= starting_state.cash_inside
        /\ \/ Debit = 0
           \/ PressedEnter /\ StartedAuthenticating /\ PinMatches /\ Debit = 1
           \/ PressedEnter /\ StartedAuthenticated /\ Debit = TypedAmount

\* C12: next_state is total: for every state and every action the call
\* returns a state and never panics.
C12_Total == ~panicked

\* C13: a complete session dispenses the typed amount.  After a swipe accepted
\* on an empty register, the digits of the pin and Enter, the machine stays
\* Authenticated while one or more digits of an amount within the cash left
\* are typed, and the final Enter returns auth = Waiting, an empty register and
\* the cash left after authentication lowered by exactly that amount.
C13_CompleteSession ==
    (session.script /\ session.from_empty) =>
        /\ session.stage = "amount" => state.expected_pin_hash = Authenticated
        /\ session.stage = "done" =>
               Returned(session.due, Waiting, <<>>)

\* C14: in every state reached from a fresh machine in which auth is
\* Authenticating, no Enter was pressed since the accepted swipe that opened the
\* session and the register is exactly the digits pressed since that swipe, in
\* press order: nothing typed before the swipe or in an earlier session is in it.
C14_RegisterIsThisSessionsDigits ==
    (~panicked /\ state.expected_pin_hash.tag = "Authenticating") =>
        /\ session.stage = "pin"
        /\ state.keystroke_register = typed

C14_Witness ==
    /\ ~panicked
    /\ state.expected_pin_hash.tag = "Authenticating"
    /\ session.stage = "pin"
    /\ ~session.from_empty
    /\ ~session.script
    /\ Len(typed) = 2
    /\ state.keystroke_register = typed

\* C15: in every state reached from a fresh machine, auth = Waiting implies an
\* empty register.
C15_WaitingRegisterEmpty ==
    state.expected_pin_hash = Waiting => state.keystroke_register = <<>>

\* C16: in every state reached from a fresh machine in which auth is
\* Authenticating(h), h is the hash of the most recent swipe made while Waiting:
\* key presses, ignored swipes and earlier sessions never replace it.
C16_HashIsAcceptedSwipe ==
    (~panicked /\ state.expected_pin_hash.tag = "Authenticating") =>
        state.expected_pin_hash.hash = accepted_hash

C16_Witness ==
    /\ ~panicked
    /\ Swiped
    /\ StartedAuthenticating
    /\ t.pin_hash # accepted_hash
    /\ state.keystroke_register # <<>>
    /\ state.expected_pin_hash = Authenticating(accepted_hash)

\* C17: Enter while Waiting, whatever the register holds, returns cash_inside
\* unchanged, auth = Waiting and an empty register.
C17_StrayEnter ==
    (PressedEnter /\ StartedWaiting) =>
        Returned(starting_state.cash_inside, Waiting, <<>>)

C17_Witness ==
    /\ PressedEnter
    /\ StartedWaiting
    /\ starting_state.keystroke_register # <<>>
    /\ state = Atm(starting_state.cash_inside, Waiting, <<>>)

\* C18: auth changes only along the edges Waiting -> Authenticating(h) on
\* SwipeCard(h), Authenticating(h) -> Authenticated on Enter with a register
\* that hashes to h, Authenticating(h) -> Waiting on Enter with a register that
\* does not, and Authenticated -> Waiting; and a step that does not start in
\* Authenticated lowers cash_inside only by the 1 of a successful pin check.
C18_AuthEdges ==
    Called =>
        /\ state.expected_pin_hash # starting_state.expected_pin_hash =>
              \/ /\ StartedWaiting
                 /\ Swiped
                 /\ state.expected_pin_hash = Authenticating(t.pin_hash)
              \/ /\ StartedAuthenticating
                 /\ PressedEnter
                 /\ PinMatches
                 /\ state.expected_pin_hash = Authenticated
              \/ /\ StartedAuthenticating
                 /\ PressedEnter
                 /\ ~PinMatches
                 /\ state.expected_pin_hash = Waiting
              \/ /\ StartedAuthenticated
                 /\ state.expected_pin_hash = Waiting
        /\ (~StartedAuthenticated /\ Debit > 0) =>
              /\ PressedEnter
              /\ StartedAuthenticating
              /\ PinMatches
              /\ Debit = 1

C18_Witness ==
    /\ PressedEnter
    /\ StartedAuthenticating
    /\ PinMatches
    /\ starting_state.keystroke_register # <<>>
    /\ state.expected_pin_hash = Authenticated
    /\ Debit = 1

\* C19: the amount computed on Enter while Authenticated is the base-10 value
\* of the register whatever its length: the call returns, and cash_inside is
\* unchanged when that value exceeds it and lowered by that value otherwise.
C19_AmountIsBase10Value ==
    (PressedEnter /\ StartedAuthenticated) =>
        /\ ~panicked
        /\ state.cash_inside =
              IF TypedAmount > starting_state.cash_inside
              THEN starting_state.cash_inside
              ELSE starting_state.cash_inside - TypedAmount

\* the state that two Enter presses in a row ended in
C20_AfterTwoEnters ==
    enters = 2 =>
        /\ state.expected_pin_hash = Waiting
        /\ state.keystroke_register = <<>>

\* C20: no session gets stuck: from every state reached from a fresh machine,
\* each of two Enter presses in a row returns, and the second one returns
\* auth = Waiting and an empty register, where a new swipe is accepted.
C20_TwoEntersEndSession ==
    /\ PressedEnter => ~panicked
    /\ C20_AfterTwoEnters

====
